---- MODULE Spec2Model ----
(***************************************************************************)
(* Model of fadcclient/api/base.py: the FortiAdcApiClient (session,        *)
(* authenticate, the retry wrapper around send_request, handle_response,   *)
(* the scoped __enter__/__exit__ use) and the two lru_cached module        *)
(* functions _get_error_codes and get_err_msg.                             *)
(*                                                                         *)
(* One step of the model is the code that runs from one network call to    *)
(* the next: the transport (requests.Session) and the appliance are the    *)
(* environment and answer every call nondeterministically.                 *)
(***************************************************************************)
EXTENDS Integers, Sequences, FiniteSets, TLC

\* ------------------------------------------------------------------ bounds
MaxSessions == 2      \* sessions one handle may open (re-entering the scope)
RecursionLimit == 2   \* nested _get_error_codes calls the interpreter's stack holds

\* ------------------------------------------------------- program constants
count == 1            \* retry(count=1)
HTTP_OK == 200
HTTP_UNAUTHORIZED == 401
HTTP_NOT_FOUND == 404

\* ------------------------------------------------------------- value space
Handles == {"adc1", "adc2"}          \* client handles (distinct objects)
Clients == {"adc1"}                  \* the handles the caller uses
Tokens == {"t1", "t2"}               \* token fields a login may return
NoTok == "<no token field>"
NoAuth == "<absent>"                 \* no Authorization header in the session

\* 500 stands for every status the code does not test.
Statuses == {HTTP_OK, HTTP_UNAUTHORIZED, HTTP_NOT_FOUND, 500}

None == [t |-> "None"]
ConnectionError == [t |-> "ConnectionError"]   \* the transport raised instead of answering

\* A login answer: a status with an optional token field, or a connection error.
LoginReplies ==
    {[t |-> "resp", status |-> HTTP_OK, token |-> tk] : tk \in Tokens \cup {NoTok}}
    \cup {[t |-> "resp", status |-> s, token |-> NoTok] : s \in {HTTP_UNAUTHORIZED, 500}}
    \cup {ConnectionError}

\* Method names are sequences of characters, so that lower() is computed.
Methods == { <<"G","E","T">>, <<"p","o","s","t">>, <<"P","u","t">>,
             <<"D","E","L","E","T","E">>, <<"P","A","T","C","H">>, <<"g","e","t","s">> }
GET == <<"G","E","T">>

\* JSON values of a payload: integers and mappings from strings to strings.
EmptyMap == [k \in {} |-> ""]
CatA == [k \in {"-15"} |-> "Duplicate entry exists"]
CatB == [k \in {"-15", "-1"} |-> IF k = "-15" THEN "Entry exists" ELSE "Entry missing"]
IntPayloads == {-15, 42}
ErrIds == {-15, -99}
JInt(n) == [t |-> "int", v |-> n]
JMap(m) == [t |-> "map", v |-> m]
JStr(s) == [t |-> "str", v |-> s]
Payloads == {JInt(n) : n \in IntPayloads} \cup {JMap(m) : m \in {CatA, CatB}}

\* Response bodies: {} (no payload key) or {"payload": p}.
NoPayload == [t |-> "nopayload"]
Bodies == {NoPayload} \cup {[t |-> "payload", payload |-> p] : p \in Payloads}

\* Answers to a verb request. Only handle_response reads a body, and the only
\* response the code itself hands to it is the one of the error-codes endpoint:
\* the other endpoints answer with two bodies, that one with every body.
PlainBodies == {NoPayload, [t |-> "payload", payload |-> JInt(42)]}
VerbReplies(catalog) ==
    {[t |-> "resp", status |-> s, body |-> b] :
        s \in Statuses, b \in IF catalog THEN Bodies ELSE PlainBodies}
    \cup {ConnectionError}

\* Bodies a caller hands to handle_response: those, and a payload of zero.
HandledBodies == Bodies \cup {[t |-> "payload", payload |-> JInt(0)]}

NoResult == [k |-> "none"]
Returned(v) == [k |-> "ret", v |-> v]
Raised(e) == [k |-> "raise", exc |-> e]

\* -------------------------------------------------------------- conversions
\* str.lower() on the characters the method names use.
LowerChar(ch) ==
    CASE ch = "G" -> "g" [] ch = "E" -> "e" [] ch = "T" -> "t" [] ch = "P" -> "p"
      [] ch = "O" -> "o" [] ch = "S" -> "s" [] ch = "U" -> "u" [] ch = "D" -> "d"
      [] ch = "L" -> "l" [] ch = "A" -> "a" [] ch = "C" -> "c" [] ch = "H" -> "h"
      [] OTHER -> ch
Lower(m) == [i \in 1..Len(m) |-> LowerChar(m[i])]

\* str(int): decimal digits, with a leading minus sign.
DigitChar(d) ==
    CASE d = 0 -> "0" [] d = 1 -> "1" [] d = 2 -> "2" [] d = 3 -> "3" [] d = 4 -> "4"
      [] d = 5 -> "5" [] d = 6 -> "6" [] d = 7 -> "7" [] d = 8 -> "8" [] d = 9 -> "9"
RECURSIVE NatStr(_)
NatStr(n) == IF n < 10 THEN DigitChar(n) ELSE NatStr(n \div 10) \o DigitChar(n % 10)
Str(n) == IF n < 0 THEN "-" \o NatStr(0 - n) ELSE NatStr(n)

\* f"Bearer {token}"
Bearer(token) == "Bearer " \o token

\* -------------------------------------------------------------------- state
VARIABLES
    scope,      \* per handle: "out" or "in" the with-block
    sid,        \* per handle: number of the session self.session holds (0: None)
    open,       \* per handle: sessions created and not closed
    auth,       \* per handle: the session's Authorization header, or NoAuth
    lastLogin,  \* per handle: token of the latest 200 login answered on the session
    errCache,   \* per handle: lru_cache of _get_error_codes
    msgCache,   \* per handle and err_id: lru_cache of get_err_msg
    pc,         \* "idle", "issue" (about to call func) or "reauth" (about to log in)
    cur,        \* the call in progress, or the last one
    chain,      \* err_ids of the nested handle_response/get_err_msg/_get_error_codes
    retries,    \* wrapper's local
    response,   \* wrapper's local
    trace,      \* network calls of the current send_request call
    handled,    \* how each nested send_request of the current call ended
    result      \* what the last call gave its caller

vars == <<scope, sid, open, auth, lastLogin, errCache, msgCache, pc, cur, chain,
          retries, response, trace, handled, result>>

Miss == [t |-> "miss"]
NoMsg == "<miss>"

Init ==
    /\ scope = [h \in Handles |-> "out"]
    /\ sid = [h \in Handles |-> 0]
    /\ open = [h \in Handles |-> {}]
    /\ auth = [h \in Handles |-> NoAuth]
    /\ lastLogin = [h \in Handles |-> NoTok]
    /\ errCache = [h \in Handles |-> Miss]
    /\ msgCache = [h \in Handles |-> [c \in ErrIds |-> NoMsg]]
    /\ pc = "idle"
    /\ cur = [op |-> "__init__", h |-> "adc1", arg |-> None]
    /\ chain = <<>>
    /\ retries = 0
    /\ response = None
    /\ trace = <<>>
    /\ handled = <<>>
    /\ result = NoResult

\* ------------------------------------------------------------- authenticate
\* Variant: a token is installed only into a session that has none yet.
authenticate_KeepsFirstToken(hdr, reply) ==
    IF reply.t = "ConnectionError" THEN [auth |-> hdr, exc |-> "ConnectionError"]
    ELSE IF reply.status = HTTP_OK
         THEN IF reply.token = NoTok
              THEN [auth |-> hdr, exc |-> "KeyError"]
              ELSE [auth |-> IF hdr = NoAuth THEN Bearer(reply.token) ELSE hdr,
                    exc |-> "none"]
    ELSE IF reply.status = HTTP_UNAUTHORIZED
         THEN [auth |-> hdr, exc |-> "AuthenticationFailed"]
    ELSE [auth |-> hdr, exc |-> "none"]

\* Variant: a rejected login drops the header the session held.
authenticate_401DropsHeader(hdr, reply) ==
    IF reply.t = "ConnectionError" THEN [auth |-> hdr, exc |-> "ConnectionError"]
    ELSE IF reply.status = HTTP_OK
         THEN IF reply.token = NoTok
              THEN [auth |-> hdr, exc |-> "KeyError"]
              ELSE [auth |-> Bearer(reply.token), exc |-> "none"]
    ELSE IF reply.status = HTTP_UNAUTHORIZED
         THEN [auth |-> NoAuth, exc |-> "AuthenticationFailed"]
    ELSE [auth |-> hdr, exc |-> "none"]

\* Variant: every login status but 200 is a failed authentication.
authenticate_OtherStatusRaises(hdr, reply) ==
    IF reply.t = "ConnectionError" THEN [auth |-> hdr, exc |-> "ConnectionError"]
    ELSE IF reply.status = HTTP_OK
         THEN IF reply.token = NoTok
              THEN [auth |-> hdr, exc |-> "KeyError"]
              ELSE [auth |-> Bearer(reply.token), exc |-> "none"]
    ELSE [auth |-> hdr, exc |-> "AuthenticationFailed"]

\* authenticate(): the header after the call and the exception raised, if any.
authenticate(hdr, reply) ==
    IF reply.t = "ConnectionError" THEN [auth |-> hdr, exc |-> "ConnectionError"]
    ELSE IF reply.status = HTTP_OK
         THEN IF reply.token = NoTok
              THEN [auth |-> hdr, exc |-> "KeyError"]
              ELSE [auth |-> Bearer(reply.token), exc |-> "none"]
    ELSE IF reply.status = HTTP_UNAUTHORIZED
         THEN [auth |-> hdr, exc |-> "AuthenticationFailed"]
    ELSE [auth |-> hdr, exc |-> "none"]

\* What the appliance recorded: the token of the latest 200 login it answered.
Granted(prev, reply) ==
    IF reply.t = "resp" /\ reply.status = HTTP_OK /\ reply.token # NoTok
    THEN reply.token ELSE prev

\* A network call as the transport saw it: the Authorization header the session
\* held when it was sent and after it, the answer's status (ok: there was an
\* answer), the token the appliance granted last, and what the call raised.
LoginEvent(before, a, granted, reply) ==
    [e |-> "login", ok |-> reply.t = "resp",
     status |-> IF reply.t = "resp" THEN reply.status ELSE 0,
     auth |-> before, after |-> a.auth, granted |-> Granted(granted, reply),
     raised |-> a.exc]

\* The client object itself, which __enter__ returns.
Self(h) == [t |-> "client", h |-> h]

\* initialize() up to its network call: self.session becomes a new session
\* with fresh headers (no Authorization); a session the handle held before is
\* dropped without being closed. The login is pending.
NewSession(h, op) ==
    /\ pc = "idle" /\ sid[h] < MaxSessions
    /\ pc' = "login"
    /\ sid' = [sid EXCEPT ![h] = @ + 1]
    /\ open' = [open EXCEPT ![h] = @ \cup {sid[h] + 1}]
    /\ auth' = [auth EXCEPT ![h] = NoAuth]
    /\ lastLogin' = [lastLogin EXCEPT ![h] = NoTok]
    /\ cur' = [op |-> op, h |-> h, arg |-> None]
    /\ result' = NoResult
    /\ trace' = <<>>
    /\ handled' = <<>>
    /\ UNCHANGED <<scope, errCache, msgCache, chain, retries, response>>

\* __enter__ calls initialize().
Enter(h) == scope[h] = "out" /\ NewSession(h, "__enter__")

\* A direct call of initialize() inside the block.
Initialize(h) == scope[h] = "in" /\ NewSession(h, "initialize")

\* The login of initialize() is answered: authenticate() ends, and so does
\* initialize(). __enter__ then returns the client; when initialize raised
\* inside __enter__, the with statement never calls __exit__.
Login ==
    /\ pc = "login"
    /\ \E reply \in LoginReplies :
        LET h == cur.h
            a == authenticate(auth[h], reply)
        IN
        /\ auth' = [auth EXCEPT ![h] = a.auth]
        /\ lastLogin' = [lastLogin EXCEPT ![h] = Granted(@, reply)]
        /\ scope' = IF cur.op = "__enter__"
                    THEN [scope EXCEPT ![h] = IF a.exc = "none" THEN "in" ELSE "out"]
                    ELSE scope
        /\ result' = IF a.exc # "none" THEN Raised(a.exc)
                     ELSE IF cur.op = "__enter__" THEN Returned(Self(h))
                     ELSE Returned(None)
        /\ trace' = <<LoginEvent(auth[h], a, lastLogin[h], reply)>>
    /\ pc' = "idle"
    /\ UNCHANGED <<sid, open, errCache, msgCache, cur, chain, retries, response, handled>>

\* __exit__: self.session.close(), whether the block finished or raised.
Exit(h) ==
    /\ pc = "idle" /\ scope[h] = "in"
    /\ open' = [open EXCEPT ![h] = @ \ {sid[h]}]
    /\ scope' = [scope EXCEPT ![h] = "out"]
    /\ cur' = [op |-> "__exit__", h |-> h, arg |-> None]
    /\ result' = Returned(None)
    /\ trace' = <<>>
    /\ handled' = <<>>
    /\ UNCHANGED <<sid, auth, lastLogin, errCache, msgCache, pc, chain, retries, response>>

\* A direct call of authenticate() inside the block.
Authenticate(h) ==
    /\ pc = "idle" /\ scope[h] = "in"
    /\ \E reply \in LoginReplies :
        LET a == authenticate(auth[h], reply) IN
        /\ auth' = [auth EXCEPT ![h] = a.auth]
        /\ lastLogin' = [lastLogin EXCEPT ![h] = Granted(@, reply)]
        /\ result' = IF a.exc = "none" THEN Returned(None) ELSE Raised(a.exc)
        /\ trace' = <<LoginEvent(auth[h], a, lastLogin[h], reply)>>
    /\ cur' = [op |-> "authenticate", h |-> h, arg |-> None]
    /\ handled' = <<>>
    /\ UNCHANGED <<scope, sid, open, errCache, msgCache, pc, chain, retries, response>>

\* ------------------------------------------------------------- send_request
Supported == { <<"g","e","t">>, <<"p","o","s","t">>, <<"p","u","t">>,
               <<"d","e","l","e","t","e">> }

\* The decorated function send_request: dispatch on method.lower(); for an
\* unsupported name ValueError is raised without a network call; whatever is
\* raised inside the try block (ValueError, the transport's ConnectionError)
\* is logged, re-raised and then discarded by "finally: return response".
\*   response: what the function returns; network: whether the verb was sent;
\*   raised: the exception raised inside the try block.
send_request(method, reply) ==
    IF Lower(method) \in Supported
    THEN IF reply.t = "ConnectionError"
         THEN [response |-> None, network |-> TRUE, raised |-> "ConnectionError"]
         ELSE [response |-> reply, network |-> TRUE, raised |-> "none"]
    ELSE [response |-> None, network |-> FALSE, raised |-> "ValueError"]

\* Variant: every client-error status is retried.
RetryAllowed_AnyClientError(status, n) == status >= HTTP_UNAUTHORIZED /\ n <= count

\* The wrapper's loop condition.
RetryAllowed(status, n) == status = HTTP_UNAUTHORIZED /\ n <= count

RequestEvent(hdr, granted, reply) ==
    [e |-> "request", ok |-> reply.t = "resp",
     status |-> IF reply.t = "resp" THEN reply.status ELSE 0,
     auth |-> hdr, after |-> hdr, granted |-> granted,
     raised |-> IF reply.t = "resp" THEN "none" ELSE "ConnectionError"]

\* ------------------------------------------------------------ error catalog
Triple(isError, error, data) ==
    [t |-> "triple", is_error |-> isError, error |-> error, data |-> data]

\* Variant: a body without a payload key is taken as a success without data.
Classify_NoPayloadIsOk(body) ==
    IF body.t = "nopayload" THEN [k |-> "ok", data |-> None]
    ELSE IF body.payload.t = "int" /\ body.payload.v < 0
         THEN [k |-> "error", err_id |-> body.payload.v]
    ELSE [k |-> "ok", data |-> body.payload]

\* handle_response's classification of a body.
Classify(body) ==
    IF body.t = "nopayload" THEN [k |-> "nopayload"]
    ELSE IF body.payload.t = "int" /\ body.payload.v < 0
         THEN [k |-> "error", err_id |-> body.payload.v]
    ELSE [k |-> "ok", data |-> body.payload]

\* get_err_msg's lookup in the mapping _get_error_codes returned.
Lookup(codes, err_id) ==
    IF Str(err_id) \in DOMAIN codes THEN codes[Str(err_id)]
    ELSE "Error code: " \o Str(err_id)

\* lru_cache: one entry per handle (and err_id); the handle hashes by identity.
\* Every call is made the way the code makes its own, with keyword arguments
\* (a positional call is cached under another key, which no action here
\* uses). The cache keeps the entry already stored under a key when a nested
\* call of the same key finished first.
Store(cached, missing, value) == IF cached = missing THEN value ELSE cached

\* The bare decorator keeps 128 keys per function: the insert of a new key
\* into a full cache evicts the least recently used key, a hit makes its key
\* the most recently used one. Most of the 128 keys are of no handle or
\* err_id followed here; a tail lists those that are, oldest first, which the
\* next inserts of new keys evict one by one (codes: handles, the keys of
\* _get_error_codes; msgs: <<handle, err_id>>, the keys of get_err_msg).
NoTail == [codes |-> <<>>, msgs |-> <<>>]
RECURSIVE SetToSeq(_)
SetToSeq(S) ==
    IF S = {} THEN <<>>
    ELSE LET x == CHOOSE y \in S : TRUE IN <<x>> \o SetToSeq(S \ {x})
\* The tails the caches ec and mc may have when a call goes on that can insert
\* at most n new keys per function: any cached keys, the cache being full.
LruTails(ec, mc, n) ==
    {[codes |-> SetToSeq(C), msgs |-> SetToSeq(M)] :
        C \in {X \in SUBSET {x \in Handles : ec[x] # Miss} :
                    Cardinality(X) <= 1 /\ Cardinality(X) <= n},
        M \in {X \in SUBSET {y \in Handles \X ErrIds : mc[y[1]][y[2]] # NoMsg} :
                    Cardinality(X) <= n}}
\* A hit on key: it is no longer among the least recently used.
Touched(tail, key) == SelectSeq(tail, LAMBDA x : x # key)
\* The keys evicted by, and the tail left after, the store of a key (new: it
\* was not in the cache).
Evicted(tail, new) == IF new /\ tail # <<>> THEN {Head(tail)} ELSE {}
Rest(tail, new) == IF new /\ tail # <<>> THEN Tail(tail) ELSE tail

\* extra: whether one more send_request call was made in which the stack ran
\* out ("none": no such call), before the request was sent ("unsent") or after
\* it was sent, its answer being lost ("lost").
Done(res, ec, mc) ==
    [pc |-> "idle", chain |-> <<>>, result |-> res, ec |-> ec, mc |-> mc, extra |-> "none"]
Suspended(ch, ec, mc) ==
    [pc |-> "issue", chain |-> ch, result |-> NoResult, ec |-> ec, mc |-> mc, extra |-> "none"]

\* What an exhausted stack does to the send_request call it happens in. The
\* stack runs out in the wrapper or in send_request before the try block
\* (RecursionError reaches the caller, nothing was sent), or inside the try
\* block, before or after the transport wrote the request: the exception is
\* discarded by "finally: return response" and the wrapper raises
\* AttributeError on None.
Overflows ==
    {[exc |-> "RecursionError", sent |-> FALSE],
     [exc |-> "AttributeError", sent |-> FALSE],
     [exc |-> "AttributeError", sent |-> TRUE]}

\* The outcomes to consider when _get_error_codes may next be called at level
\* k: below the limit the stack holds and the choice is never looked at.
OverflowsAt(k) ==
    IF k > RecursionLimit THEN Overflows ELSE {[exc |-> "RecursionError", sent |-> FALSE]}

\* _get_error_codes at a level the interpreter's stack no longer holds: it
\* calls connection.send_request, the stack runs out inside that call, and the
\* call ends by raising, which reaches the caller through every frame;
\* nothing is cached.
StackExhausted(overflow, ec, mc) ==
    [Done(Raised(overflow.exc), ec, mc) EXCEPT !.extra = IF overflow.sent THEN "lost" ELSE "unsent"]

\* The request of a send_request call whose answer was lost to the exhausted
\* stack, as the transport saw it.
LostRequestEvent(hdr, granted) ==
    [e |-> "request", ok |-> FALSE, status |-> 0, auth |-> hdr, after |-> hdr,
     granted |-> granted, raised |-> "RecursionError"]

\* The calls between handle_response, get_err_msg and _get_error_codes nest:
\* level k of the chain is handle_response(payload ch[k]) -> get_err_msg(ch[k])
\* -> _get_error_codes -> send_request; the response of level k is handed to
\* handle_response of level k+1. top is the function the caller called, which
\* is the outermost frame of level 1. Each operator gives the state at the
\* next network call (Suspended) or at the return to the caller (Done).
RECURSIVE GecReturns(_, _, _, _, _, _, _, _)
RECURSIVE GemReturns(_, _, _, _, _, _, _, _)

\* handle_response of level k returns t to its caller: the user, or the
\* _get_error_codes of level k-1, which returns dict() on is_error, else data.
HrReturns(h, k, t, ec, mc, top, ch, lru) ==
    IF k = 1 THEN Done(Returned(t), ec, mc)
    ELSE GecReturns(h, k - 1, IF t.is_error THEN JMap(EmptyMap) ELSE t.data, ec, mc, top, ch, lru)

\* Variant: handle_response gives no data with an error.
GemReturns_NoData(h, k, msg, ec, mc, top, ch, lru) ==
    IF k = 1 /\ top = "get_err_msg" THEN Done(Returned(JStr(msg)), ec, mc)
    ELSE HrReturns(h, k, Triple(TRUE, JStr(msg), None), ec, mc, top, ch, lru)

\* get_err_msg of level k returns msg (already cached or just computed).
GemReturns(h, k, msg, ec, mc, top, ch, lru) ==
    IF k = 1 /\ top = "get_err_msg" THEN Done(Returned(JStr(msg)), ec, mc)
    ELSE HrReturns(h, k, Triple(TRUE, JStr(msg), JInt(ch[k])), ec, mc, top, ch, lru)

\* get_err_msg of level k has error_codes: error_codes.keys() raises for a
\* payload that is no mapping, and the exception reaches the caller. Else the
\* message is looked up and lru_cache stores it, evicting the least recently
\* used key when the key is new.
GemLooksUp(h, k, codes, ec, mc, top, ch, lru) ==
    IF codes.t # "map" THEN Done(Raised("AttributeError"), ec, mc)
    ELSE LET msg == Lookup(codes.v, ch[k])
             new == mc[h][ch[k]] = NoMsg
             mc1 == [x \in Handles |-> [c \in DOMAIN mc[x] |->
                        IF x = h /\ c = ch[k] THEN Store(mc[x][c], NoMsg, msg)
                        ELSE IF <<x, c>> \in Evicted(lru.msgs, new) THEN NoMsg
                        ELSE mc[x][c]]]
         IN  GemReturns(h, k, msg, ec, mc1, top, ch, [lru EXCEPT !.msgs = Rest(@, new)])

\* _get_error_codes of level k returns data, which lru_cache stores, evicting
\* the least recently used key when the key is new.
GecReturns(h, k, data, ec, mc, top, ch, lru) ==
    LET new == ec[h] = Miss
        ec1 == [x \in Handles |->
                   IF x = h THEN Store(ec[x], Miss, data)
                   ELSE IF x \in Evicted(lru.codes, new) THEN Miss
                   ELSE ec[x]]
        lru1 == [lru EXCEPT !.codes = Rest(@, new)]
    IN
    IF k = 1 /\ top = "get_error_codes" THEN Done(Returned(data), ec1, mc)
    ELSE GemLooksUp(h, k, data, ec1, mc, top, ch, lru1)

\* Variant: _get_error_codes without its cache, fetching on every call.
get_error_codes_NoCache(h, k, ec, mc, top, ch, overflow, lru) ==
    IF k > RecursionLimit THEN StackExhausted(overflow, ec, mc)
    ELSE Suspended(ch, ec, mc)

\* _get_error_codes is called at level k: a cache hit returns at once, a miss
\* calls send_request, which sends the request unless the interpreter's stack
\* is exhausted.
get_error_codes(h, k, ec, mc, top, ch, overflow, lru) ==
    IF ec[h] # Miss THEN
        (IF k = 1 /\ top = "get_error_codes" THEN Done(Returned(ec[h]), ec, mc)
         ELSE GemLooksUp(h, k, ec[h], ec, mc, top, ch,
                         [lru EXCEPT !.codes = Touched(@, h)]))
    ELSE IF k > RecursionLimit THEN StackExhausted(overflow, ec, mc)
    ELSE Suspended(ch, ec, mc)

\* get_err_msg(connection, ch[k]) is called at level k.
get_err_msg(h, k, ec, mc, top, ch, overflow, lru) ==
    IF mc[h][ch[k]] # NoMsg
    THEN GemReturns(h, k, mc[h][ch[k]], ec, mc, top, ch,
                    [lru EXCEPT !.msgs = Touched(@, <<h, ch[k]>>)])
    ELSE get_error_codes(h, k, ec, mc, top, ch, overflow, lru)

\* handle_response(response) is called at level k with the body of response.
handle_response(h, k, body, ec, mc, top, ch, overflow, lru) ==
    LET c == Classify(body) IN
    IF c.k = "nopayload" THEN HrReturns(h, k, Triple(TRUE, None, None), ec, mc, top, ch, lru)
    ELSE IF c.k = "ok" THEN HrReturns(h, k, Triple(FALSE, None, c.data), ec, mc, top, ch, lru)
    ELSE get_err_msg(h, k, ec, mc, top, Append(ch, c.err_id), overflow, lru)

\* send_request (wrapper included) ends with outcome o at level Len(chain).
AfterSendRequest(h, o, ec, mc, top, ch, overflow, lru) ==
    IF ch = <<>> THEN Done(o, ec, mc)
    ELSE IF o.k = "raise" THEN Done(o, ec, mc)
    ELSE handle_response(h, Len(ch) + 1, o.v.body, ec, mc, top, ch, overflow, lru)

\* Variant: one cache for all handles, as if the handle were no part of the key.
Resume_SharedCache(h, out) ==
    /\ pc' = out.pc
    /\ chain' = out.chain
    /\ result' = out.result
    /\ errCache' = [x \in Handles |-> out.ec[h]]
    /\ msgCache' = [x \in Handles |-> out.mc[h]]

\* The state after the catalog functions ran to the next network call or return.
Resume(h, out) ==
    /\ pc' = out.pc
    /\ chain' = out.chain
    /\ result' = out.result
    /\ errCache' = out.ec
    /\ msgCache' = out.mc

\* Variant: the wrapper hands the None of the user's call through.
WrapperAfterCall_PassesNone(resp, n) ==
    IF resp.t = "None" THEN (IF chain = <<>> THEN "return" ELSE "raise")
    ELSE IF RetryAllowed(resp.status, n) THEN "reauth"
    ELSE "return"

\* The wrapper after func returned resp with n retries so far: None has no
\* status_code (AttributeError); a 401 within the budget goes to authenticate;
\* anything else is returned.
WrapperAfterCall(resp, n) ==
    IF resp.t = "None" THEN "raise"
    ELSE IF RetryAllowed(resp.status, n) THEN "reauth"
    ELSE "return"

\* Variant: the request is sent again after a failed re-authentication too.
WrapperAfterAuth_ReissuesAnyway(exc) ==
    IF exc \in {"none", "AuthenticationFailed"} THEN "reissue" ELSE "raise"

\* Variant: AuthenticationFailed is not caught.
WrapperAfterAuth_NoCatch(exc) == IF exc = "none" THEN "reissue" ELSE "raise"

\* The wrapper after authenticate() raised exc ("none": it returned): only
\* AuthenticationFailed is caught, and the response at hand is returned.
WrapperAfterAuth(exc) ==
    IF exc = "AuthenticationFailed" THEN "return"
    ELSE IF exc = "none" THEN "reissue"
    ELSE "raise"

\* send_request returns or raises (outcome o): its caller continues.
FinishSendRequest(h, o, tr) ==
    \E out \in {AfterSendRequest(h, o, errCache, msgCache, cur.op, chain, overflow, lru) :
                    overflow \in OverflowsAt(Len(chain) + 1),
                    lru \in LruTails(errCache, msgCache, Len(chain))} :
    LET hd == IF chain = <<>> THEN handled
              ELSE Append(handled, IF o.k = "raise" THEN "raised" ELSE Classify(o.v.body).k)
    IN
    /\ Resume(h, out)
    /\ retries' = 0
    /\ response' = None
    /\ trace' = IF out.extra = "lost" THEN <<LostRequestEvent(auth'[h], lastLogin'[h])>>
                ELSE IF out.pc = "issue" \/ out.extra = "unsent" THEN <<>>
                ELSE tr
    /\ handled' = IF out.extra = "none" THEN hd ELSE Append(hd, "raised")

\* The method of the send_request call in progress.
Method == IF chain = <<>> THEN cur.arg ELSE GET

\* A call of send_request(method, path) inside the block.
SendRequest(h, m) ==
    /\ pc = "idle" /\ scope[h] = "in"
    /\ pc' = "issue"
    /\ cur' = [op |-> "send_request", h |-> h, arg |-> m]
    /\ chain' = <<>>
    /\ retries' = 0
    /\ response' = None
    /\ trace' = <<>>
    /\ handled' = <<>>
    /\ result' = NoResult
    /\ UNCHANGED <<scope, sid, open, auth, lastLogin, errCache, msgCache>>

\* func(self, ...) is called (the first time or again) and the wrapper goes on
\* to its next network call or to its end; replies are the answers the
\* appliance may give.
IssueWith(replies) ==
    /\ pc = "issue"
    /\ UNCHANGED <<scope, sid, open, auth, lastLogin, cur>>
    /\ \E reply \in replies :
        LET h == cur.h
            r == send_request(Method, reply)
            tr == IF r.network THEN Append(trace, RequestEvent(auth[h], lastLogin[h], reply)) ELSE trace
            w == WrapperAfterCall(r.response, retries)
        IN  IF w = "reauth"
            THEN /\ pc' = "reauth"
                 /\ retries' = retries + 1
                 /\ response' = r.response
                 /\ trace' = tr
                 /\ UNCHANGED <<chain, result, errCache, msgCache, handled>>
            ELSE FinishSendRequest(h, IF w = "raise" THEN Raised("AttributeError")
                                      ELSE Returned(r.response), tr)

Issue == IssueWith(VerbReplies(chain # <<>>))

\* self.authenticate() inside the wrapper's loop.
Reauth ==
    /\ pc = "reauth"
    /\ \E reply \in LoginReplies :
        LET h == cur.h
            a == authenticate(auth[h], reply)
            tr == Append(trace, LoginEvent(auth[h], a, lastLogin[h], reply))
            w == WrapperAfterAuth(a.exc)
        IN  /\ auth' = [auth EXCEPT ![h] = a.auth]
            /\ lastLogin' = [lastLogin EXCEPT ![h] = Granted(@, reply)]
            /\ IF w = "reissue"
               THEN /\ pc' = "issue"
                    /\ trace' = tr
                    /\ UNCHANGED <<chain, result, errCache, msgCache, retries, response,
                                   handled>>
               ELSE FinishSendRequest(h, IF w = "raise" THEN Raised(a.exc)
                                         ELSE Returned(response), tr)
    /\ UNCHANGED <<scope, sid, open, cur>>

\* A catalog function is called by the user: it returns at once or reaches
\* the first network call of a nested send_request.
Call(h, top, arg, out) ==
    /\ pc = "idle" /\ scope[h] = "in"
    /\ cur' = [op |-> top, h |-> h, arg |-> arg]
    /\ Resume(h, out)
    /\ retries' = 0
    /\ response' = None
    /\ trace' = IF out.extra = "lost" THEN <<LostRequestEvent(auth[h], lastLogin[h])>> ELSE <<>>
    /\ handled' = IF out.extra = "none" THEN <<>> ELSE <<"raised">>
    /\ UNCHANGED <<scope, sid, open, auth, lastLogin>>

\* connection.handle_response(response), response having the given body.
HandleResponse(h, body) ==
    \E out \in {handle_response(h, 1, body, errCache, msgCache, "handle_response", <<>>, overflow, lru) :
                    overflow \in OverflowsAt(1), lru \in LruTails(errCache, msgCache, 1)} :
        Call(h, "handle_response", body, out)

\* get_err_msg(connection, err_id)
GetErrMsg(h, c) ==
    \E out \in {get_err_msg(h, 1, errCache, msgCache, "get_err_msg", <<c>>, overflow, lru) :
                    overflow \in OverflowsAt(1), lru \in LruTails(errCache, msgCache, 1)} :
        Call(h, "get_err_msg", JInt(c), out)

\* _get_error_codes(connection)
GetErrorCodes(h) ==
    \E out \in {get_error_codes(h, 1, errCache, msgCache, "get_error_codes", <<0>>, overflow, lru) :
                    overflow \in OverflowsAt(1), lru \in LruTails(errCache, msgCache, 1)} :
        Call(h, "get_error_codes", None, out)

\* Between two calls of a handle, calls for keys not followed here (other
\* clients, other err_ids) insert their keys and push an entry of the handle
\* out of the full cache, the catalog's or one message's.
EvictCatalog(h) ==
    /\ errCache[h] # Miss
    /\ errCache' = [errCache EXCEPT ![h] = Miss]
    /\ UNCHANGED msgCache
EvictMessage(h, c) ==
    /\ msgCache[h][c] # NoMsg
    /\ msgCache' = [msgCache EXCEPT ![h][c] = NoMsg]
    /\ UNCHANGED errCache
Evict(h) ==
    /\ pc = "idle"
    /\ EvictCatalog(h) \/ \E c \in ErrIds : EvictMessage(h, c)
    /\ cur' = [op |-> "evict", h |-> h, arg |-> None]
    /\ result' = NoResult
    /\ trace' = <<>>
    /\ handled' = <<>>
    /\ UNCHANGED <<scope, sid, open, auth, lastLogin, pc, chain, retries, response>>

Next ==
    \/ \E h \in Clients : Enter(h)
    \/ \E h \in Clients : Initialize(h)
    \/ Login
    \/ \E h \in Clients : Exit(h)
    \/ \E h \in Clients : Authenticate(h)
    \/ \E h \in Clients, m \in Methods : SendRequest(h, m)
    \/ Issue
    \/ Reauth
    \/ \E h \in Clients, body \in HandledBodies : HandleResponse(h, body)
    \/ \E h \in Clients, c \in ErrIds : GetErrMsg(h, c)
    \/ \E h \in Clients : GetErrorCodes(h)

Spec == Init /\ [][Next]_vars

\* Bodies with a negative payload.
ErrorBodies == {b \in Bodies : Classify(b).k = "error"}

\* The catalog functions of one client in a process that uses more than 128
\* cache keys, so that entries are evicted between calls.
NextCache ==
    \/ \E h \in Clients : Enter(h)
    \/ Login
    \/ Issue
    \/ Reauth
    \/ \E h \in Clients, body \in ErrorBodies : HandleResponse(h, body)
    \/ \E h \in Clients, c \in ErrIds : GetErrMsg(h, c)
    \/ \E h \in Clients : GetErrorCodes(h)
    \/ \E h \in Clients : Evict(h)

SpecCache == Init /\ [][NextCache]_vars

\* Two clients, each with its own appliance: adc1 serves CatA and adc2 serves
\* CatB at the error-codes endpoint, whatever else they answer there. Their
\* tokens stay valid (no 401), and the lookups are those of get_err_msg and of
\* handle_response on a negative payload.
Serves(h) == IF h = "adc1" THEN CatA ELSE CatB
OwnReplies(h) ==
    {r \in VerbReplies(TRUE) :
        /\ r.t = "resp" => r.status # HTTP_UNAUTHORIZED
        /\ (r.t = "resp" /\ r.body.t = "payload" /\ r.body.payload.t = "map")
              => r.body.payload.v = Serves(h)}

NextTwo ==
    \/ \E h \in Handles : Enter(h)
    \/ Login
    \/ IssueWith(OwnReplies(cur.h))
    \/ \E h \in Handles, body \in ErrorBodies : HandleResponse(h, body)
    \/ \E h \in Handles, c \in ErrIds : GetErrMsg(h, c)

SpecTwo == Init /\ [][NextTwo]_vars

\* ==================================================================== claims
Logins(tr) == {i \in DOMAIN tr : tr[i].e = "login"}
Requests(tr) == {i \in DOMAIN tr : tr[i].e = "request"}
Last(tr) == tr[Len(tr)]
\* The trace is that of a send_request call (the user's, or a nested one).
InSendRequest == cur.op \in {"send_request", "handle_response", "get_err_msg", "get_error_codes"}
Finished(op) == pc = "idle" /\ cur.op = op

\* C1: when every request of a send_request call is answered 401 and every
\* re-login succeeds, the call logs in again at most count times and issues the
\* request at most count + 1 times.
C1_RetryBound ==
    ( /\ InSendRequest
      /\ \A i \in Requests(trace) : trace[i].ok /\ trace[i].status = HTTP_UNAUTHORIZED
      /\ \A i \in Logins(trace) : trace[i].raised = "none" )
    => /\ Cardinality(Logins(trace)) <= count
       /\ Cardinality(Requests(trace)) <= count + 1

\* C2: send_request with a method name other than get, post, put, delete (in
\* any case) raises ValueError to its caller and makes no network call.
C2_UnsupportedMethodRaisesValueError ==
    (Finished("send_request") /\ Lower(cur.arg) \notin Supported)
    => (result = Raised("ValueError") /\ trace = <<>>)

\* C3: a ConnectionError of the transport, during authenticate, the verb
\* request of send_request or the wrapper's re-authentication, reaches the
\* caller of that operation as that ConnectionError.
C3_ConnectionErrorPropagates ==
    ( /\ pc = "idle"
      /\ cur.op \in {"__enter__", "authenticate", "send_request"}
      /\ trace # <<>>
      /\ Last(trace).raised = "ConnectionError" )
    => result = Raised("ConnectionError")

\* The err_id of the body handle_response was called with.
ArgErrId == Classify(cur.arg).err_id
DefaultMsg(c) == "Error code: " \o Str(c)
NegativePayloadHandled == Finished("handle_response") /\ Classify(cur.arg).k = "error"

\* C4 as stated: handle_response on a negative payload c returns (true, m, none).
C4_NegativePayloadGivesNone ==
    (NegativePayloadHandled /\ result.k = "ret")
    => (result.v.is_error /\ result.v.error.t = "str" /\ result.v.data = None)

\* C4 as amended: whenever handle_response on a negative payload c returns, it
\* returns (true, m, c): the third component is c, and m is the message
\* get_err_msg gives for c: the memoized message when no fetch was needed,
\* the entry under str(c) of the mapping the fetch returned (else "Error code:
\* c") when the catalog was fetched, "Error code: c" when the fetch failed soft.
C4_NegativePayloadTriple ==
    (NegativePayloadHandled /\ result.k = "ret")
    => /\ result.v.is_error /\ result.v.error.t = "str"
       /\ result.v.data = JInt(ArgErrId)
       /\ handled = <<>> => result.v.error = JStr(msgCache[cur.h][ArgErrId])
       /\ handled = <<"ok">> => result.v.error = JStr(Lookup(errCache[cur.h].v, ArgErrId))
       /\ (handled # <<>> /\ handled[1] \in {"nopayload", "error"})
            => result.v.error = JStr(DefaultMsg(ArgErrId))

\* C4 witness: a negative payload was handled with a message of the catalog
\* just fetched.
C4_Witness ==
    /\ NegativePayloadHandled /\ result.k = "ret" /\ handled = <<"ok">>
    /\ result.v.error = JStr("Duplicate entry exists")
    /\ result.v.data = JInt(-15)

\* C5: when every answer of the error-codes endpoint during a call is an error
\* response (no payload key, or a negative payload), _get_error_codes returns
\* the empty mapping and neither it nor get_err_msg nor handle_response raises.
\* (Every send_request of the call that got an answer ended with an error
\* response, and nothing else failed: no transport failure, no failed login.
\* A last send_request that raised because the stack ran out, before its
\* request was sent or after, got no answer.)
StackRanOut ==
    \/ trace = <<>>
    \/ Len(trace) = 1 /\ trace[1].e = "request" /\ trace[1].raised = "RecursionError"
OnlyErrorAnswers ==
    /\ handled # <<>> /\ handled[1] \in {"nopayload", "error"}
    /\ \A i \in DOMAIN handled :
          \/ handled[i] \in {"nopayload", "error"}
          \/ i = Len(handled) /\ handled[i] = "raised" /\ StackRanOut
C5_FetchFailsSoft ==
    ( /\ pc = "idle"
      /\ cur.op \in {"get_error_codes", "get_err_msg", "handle_response"}
      /\ OnlyErrorAnswers )
    => /\ result.k = "ret"
       /\ cur.op = "get_error_codes" => result.v = JMap(EmptyMap)

\* C6: whenever control is outside the with-block of a handle, every session
\* the handle opened has been closed.
C6_SessionReleasedOnEveryExit ==
    \A h \in Handles : (pc = "idle" /\ scope[h] = "out") => open[h] = {}

\* C7: once a login was answered 200 with a token, the session's Authorization
\* header is "Bearer <t>" for the token t of the latest such login, and every
\* request sent carried the header of the token granted last before it.
C7_BearerIsLatestToken ==
    /\ \A h \in Handles : lastLogin[h] # NoTok => auth[h] = "Bearer " \o lastLogin[h]
    /\ \A i \in Requests(trace) :
          trace[i].granted # NoTok => trace[i].auth = "Bearer " \o trace[i].granted

\* C7 witness: within one send_request call the token was renewed, and the
\* request went out with the old token first and with the new one afterwards.
C7_Witness ==
    \E i, j \in Requests(trace) :
        /\ i < j
        /\ trace[i].granted # NoTok /\ trace[j].granted # NoTok
        /\ trace[i].auth # trace[j].auth

\* C8: a login answered 401 makes authenticate raise AuthenticationFailed and
\* leaves the Authorization header as it was; a direct caller (initialize,
\* or the user) sees AuthenticationFailed.
C8_Login401Fails ==
    /\ \A i \in Logins(trace) :
          (trace[i].ok /\ trace[i].status = HTTP_UNAUTHORIZED)
          => (trace[i].raised = "AuthenticationFailed" /\ trace[i].after = trace[i].auth)
    /\ ( /\ pc = "idle" /\ cur.op \in {"__enter__", "initialize", "authenticate"}
         /\ trace[1].ok /\ trace[1].status = HTTP_UNAUTHORIZED )
       => (result = Raised("AuthenticationFailed") /\ auth[cur.h] = trace[1].auth)

\* C8 witness: authenticate was called on a session holding a token, the
\* login was answered 401, and the token is still there.
C8_Witness ==
    /\ Finished("authenticate")
    /\ trace[1].ok /\ trace[1].status = HTTP_UNAUTHORIZED
    /\ auth[cur.h] # NoAuth

\* C9: in the wrapper, a re-authentication that raises AuthenticationFailed
\* ends send_request: the 401 response at hand is returned, nothing is raised
\* and nothing more is sent; a re-authentication that returns is followed by
\* the same request again.
C9_AuthFailedStopsRetry ==
    [][ (pc = "reauth" /\ cur.op = "send_request")
        => LET ev == Last(trace') IN
           /\ Len(trace') = Len(trace) + 1 /\ ev.e = "login"
           /\ ev.raised = "AuthenticationFailed"
                => /\ pc' = "idle"
                   /\ result' = Returned(response)
                   /\ response.status = HTTP_UNAUTHORIZED
           /\ ev.raised = "none"
                => (pc' = "issue" /\ cur' = cur /\ result' = NoResult) ]_vars

\* C9 witness: a send_request call ended on a failed re-authentication.
C9_Witness ==
    /\ Finished("send_request") /\ trace # <<>>
    /\ Last(trace).e = "login" /\ Last(trace).raised = "AuthenticationFailed"
    /\ result.k = "ret"

\* C10: when the first answer to a request is not 401, nothing else is sent
\* (no login, no second request) and send_request returns a response with
\* that status instead of raising.
C10_OnlyUnauthorizedRetries ==
    ( /\ InSendRequest /\ trace # <<>>
      /\ trace[1].ok /\ trace[1].status # HTTP_UNAUTHORIZED )
    => /\ Len(trace) = 1
       /\ pc \notin {"reauth"}
       /\ cur.op = "send_request"
            => (pc = "idle" /\ result.k = "ret" /\ result.v.status = trace[1].status)

\* C10 witness: a 404 was returned as it came.
C10_Witness ==
    /\ Finished("send_request") /\ Len(trace) = 1
    /\ result.k = "ret" /\ result.v.status = HTTP_NOT_FOUND

\* C11 as stated: of two consecutive _get_error_codes calls for one handle, the
\* first sends at most one request to the error-codes endpoint, the second
\* sends none when the first sent one, and the second returns what the first
\* returned.
C11_FetchedAtMostOnce ==
    [][ (Finished("get_error_codes") /\ cur' = cur) =>
            /\ Len(handled) <= 1
            /\ Cardinality(Requests(trace)) <= 1
            /\ (handled # <<>> => pc' = "idle")
            /\ (result.k = "ret" => result' = result) ]_vars

\* C11: for calls made with the keyword argument. While the cache holds an
\* entry for a handle, the entry is never replaced, it only leaves by
\* eviction; no request to the error-codes endpoint is in flight for the
\* handle; and a _get_error_codes call returns the entry in one step, without
\* a network call. An entry appears only in the step in which a fetch of the
\* handle is answered and its _get_error_codes returns (the empty mapping when
\* the body has no payload, or a negative payload whose message is still
\* memoized), whether the outer call then returns or raises. A call
\* that returns leaves an entry: the mapping it returned, unless the answer to
\* its fetch was a negative payload and the fetch nested; then the call
\* returned the empty mapping and the entry is what the innermost fetch
\* stored. A call made without an entry sends the request.
C11_CachedFetchIsStable ==
    [][ /\ \A h \in Handles :
              /\ errCache[h] # Miss => errCache'[h] \in {errCache[h], Miss}
              /\ (errCache[h] # Miss /\ errCache'[h] = Miss) => (pc = "idle" /\ cur'.op = "evict")
              /\ (errCache[h] = Miss /\ errCache'[h] # Miss) =>
                    /\ pc # "idle" /\ cur.h = h /\ chain # <<>>
                    /\ handled' # <<>> /\ Last(handled') \in {"ok", "nopayload", "error"}
                    /\ Last(handled') \in {"nopayload", "error"} => errCache'[h] = JMap(EmptyMap)
        /\ (pc' # "idle" /\ chain' # <<>>) => errCache'[cur'.h] = Miss
        /\ (pc' = "idle" /\ cur'.op = "get_error_codes" /\ result'.k = "ret") =>
              /\ errCache'[cur'.h] # Miss
              /\ result'.v = IF Len(handled') <= 1 THEN errCache'[cur'.h] ELSE JMap(EmptyMap)
              /\ errCache[cur'.h] # Miss =>
                    (pc = "idle" /\ trace' = <<>> /\ result'.v = errCache[cur'.h])
        /\ (pc = "idle" /\ cur'.op = "get_error_codes" /\ errCache[cur'.h] = Miss)
              => (pc' = "issue" /\ chain' # <<>>) ]_vars

\* A call is answered from the cache: nothing was sent, the entry is returned.
C11_Witness ==
    /\ Finished("get_error_codes") /\ result.k = "ret"
    /\ handled = <<>> /\ trace = <<>>
    /\ result.v = JMap(CatA) /\ errCache[cur.h] = JMap(CatA)

\* A call that raised left an entry: its fetch was answered -15, the nested
\* fetch was answered 42 and stored it, and get_err_msg raised on it.
C11_RaisedWithEntryReached ==
    /\ Finished("get_error_codes") /\ result = Raised("AttributeError")
    /\ handled = <<"error", "ok">> /\ errCache[cur.h] = JInt(42)

\* The nested fetch: the call returned the empty mapping, the cache holds the
\* catalog of the innermost fetch.
C11_NestedFetchReached ==
    /\ Finished("get_error_codes") /\ result = Returned(JMap(EmptyMap))
    /\ Len(handled) > 1 /\ errCache[cur.h] = JMap(CatA)

\* C12: with two handles whose appliances serve different catalogs, every
\* mapping and message cached for a handle, and every message a lookup with
\* the handle returns, comes from that handle's own catalog or is its default,
\* in any interleaving of the two handles' calls.
OwnMessages(h, c) == {Lookup(Serves(h), c), DefaultMsg(c)}
C12_LookupsUseOwnCatalog ==
    /\ \A h \in Handles :
          /\ errCache[h].t = "map" => errCache[h].v \in {Serves(h), EmptyMap}
          /\ \A c \in ErrIds : msgCache[h][c] \in {NoMsg} \cup OwnMessages(h, c)
    /\ (Finished("get_err_msg") /\ result.k = "ret")
          => (result.v.t = "str" /\ result.v.v \in OwnMessages(cur.h, cur.arg.v))
    /\ (NegativePayloadHandled /\ result.k = "ret")
          => result.v.error.v \in OwnMessages(cur.h, ArgErrId)

\* Both handles hold their own message for -15 and adc1 is answered from its
\* memo after adc2 fetched its catalog.
C12_Witness ==
    /\ msgCache["adc1"][-15] = "Duplicate entry exists"
    /\ msgCache["adc2"][-15] = "Entry exists"
    /\ errCache["adc1"] = JMap(CatA) /\ errCache["adc2"] = JMap(CatB)
    /\ Finished("get_err_msg") /\ cur.h = "adc1" /\ cur.arg = JInt(-15)
    /\ handled = <<>> /\ result = Returned(JStr("Duplicate entry exists"))

\* C13: when handle_response returns, isError is true exactly when the body
\* has no payload key or its payload is a negative integer; a body without
\* payload gives (true, none, none), and any payload v that is no negative
\* integer (zero, positive, a mapping) gives (false, none, v).
NegativeInt(body) == body.t = "payload" /\ body.payload.t = "int" /\ body.payload.v < 0
C13_EnvelopeClassification ==
    (Finished("handle_response") /\ result.k = "ret") =>
        /\ result.v.is_error <=> (cur.arg.t = "nopayload" \/ NegativeInt(cur.arg))
        /\ cur.arg.t = "nopayload" => result.v = Triple(TRUE, None, None)
        /\ (cur.arg.t = "payload" /\ ~NegativeInt(cur.arg))
              => result.v = Triple(FALSE, None, cur.arg.payload)

\* The boundary: a payload of zero is a success carrying 0; and a body without
\* payload has been classified too.
C13_Witness ==
    /\ Finished("handle_response")
    /\ \/ cur.arg = [t |-> "payload", payload |-> JInt(0)] /\ result = Returned(Triple(FALSE, None, JInt(0)))
       \/ cur.arg = NoPayload /\ result = Returned(Triple(TRUE, None, None))

\* C14 as stated: whenever get_err_msg returns for a handle and a code, it
\* returns the message stored under str(code) in the catalog fetched for the
\* handle when the catalog has one, and "Error code: <code>" otherwise.
C14_LookupUsesCatalog ==
    (Finished("get_err_msg") /\ result.k = "ret") =>
        /\ errCache[cur.h].t = "map"
        /\ result.v = JStr(Lookup(errCache[cur.h].v, cur.arg.v))

\* C16 as stated, for the lookup that follows at once: after get_err_msg has
\* returned a message for a handle and a code, the next lookup of the same
\* handle and code sends nothing and returns the same message.
C16_LookupIsStable ==
    [][ (Finished("get_err_msg") /\ result.k = "ret" /\ cur' = cur) =>
            (pc' = "idle" /\ trace' = <<>> /\ result' = result) ]_vars

\* C15: a finished send_request call (wrapper included) has either raised or
\* returned a response object: its caller never gets None, whatever the
\* method name, the answers and the transport failures were.
C15_NeverReturnsNone ==
    Finished("send_request") =>
        \/ result.k = "raise"
        \/ result.k = "ret" /\ result.v.t = "resp" /\ result.v # None

\* The cases where func gave None: an unsupported method (nothing sent) and a
\* transport failure; the caller saw an exception.
C15_Witness ==
    /\ Finished("send_request") /\ result = Raised("AttributeError")
    /\ \/ Lower(cur.arg) \notin Supported /\ trace = <<>>
       \/ trace # <<>> /\ ~Last(trace).ok

\* C17: inside a send_request call, every request after the first comes right
\* after a login that did not raise, every login comes right after a request
\* answered 401, a login is pending only when the latest answer was 401, and
\* a returned response is that of the last request sent.
LastRequest(tr) == CHOOSE i \in Requests(tr) : \A j \in Requests(tr) : j <= i
C17_RetryOrdering ==
    InSendRequest =>
        /\ \A i \in Requests(trace) :
              i > 1 => (trace[i - 1].e = "login" /\ trace[i - 1].raised = "none")
        /\ \A i \in Logins(trace) :
              /\ i > 1 /\ trace[i - 1].e = "request"
              /\ trace[i - 1].ok /\ trace[i - 1].status = HTTP_UNAUTHORIZED
        /\ pc = "reauth" =>
              /\ trace # <<>> /\ Last(trace).e = "request"
              /\ Last(trace).ok /\ Last(trace).status = HTTP_UNAUTHORIZED
              /\ response.t = "resp" /\ response.status = HTTP_UNAUTHORIZED
        /\ (Finished("send_request") /\ result.k = "ret") =>
              /\ Requests(trace) # {}
              /\ trace[LastRequest(trace)].ok
              /\ result.v.status = trace[LastRequest(trace)].status

\* A retried call: 401, a login that returned, the request again, and its
\* answer returned.
C17_Witness ==
    /\ Finished("send_request") /\ Len(trace) = 3
    /\ trace[1].e = "request" /\ trace[1].status = HTTP_UNAUTHORIZED
    /\ trace[2].e = "login" /\ trace[2].raised = "none"
    /\ trace[3].e = "request" /\ trace[3].status = HTTP_OK
    /\ result.k = "ret" /\ result.v.status = HTTP_OK

\* C18: authenticate raises only on a 401 login answer (AuthenticationFailed),
\* on a transport failure, or while reading the token of a 200 answer; on any
\* other status it returns, raises nothing and leaves the Authorization header
\* as it was, and the wrapper then sends the request again with that header
\* (the old token, or none).
OtherStatus(ev) == ev.ok /\ ev.status \notin {HTTP_OK, HTTP_UNAUTHORIZED}
C18_OtherStatusIsSilentSuccess ==
    /\ \A i \in Logins(trace) :
          LET ev == trace[i] IN
          /\ ev.raised # "none" =>
                \/ ev.ok /\ ev.status = HTTP_UNAUTHORIZED /\ ev.raised = "AuthenticationFailed"
                \/ ev.ok /\ ev.status = HTTP_OK /\ ev.raised = "KeyError"
                \/ ~ev.ok /\ ev.raised = "ConnectionError"
          /\ OtherStatus(ev) => (ev.raised = "none" /\ ev.after = ev.auth)
    /\ InSendRequest =>
          \A i \in Logins(trace) :
              OtherStatus(trace[i]) =>
                  /\ i = Len(trace) => pc = "issue"
                  /\ i < Len(trace) =>
                        /\ trace[i + 1].e = "request"
                        /\ trace[i + 1].auth = trace[i - 1].auth

\* A 500 login answer inside the wrapper was followed by the request again,
\* under the header the first request carried.
C18_Witness ==
    /\ cur.op = "send_request" /\ Len(trace) >= 3
    /\ trace[2].e = "login" /\ trace[2].status = 500 /\ trace[2].raised = "none"
    /\ trace[3].e = "request" /\ trace[3].auth = trace[1].auth
====
